---- MODULE Spec2Model ----
(***************************************************************************)
(* Model of the variable-length edge expansion planner of nebula-graph,    *)
(* src/planner/match/Expand.cpp: doExpand, expandSteps, expandStep,        *)
(* collectData, filterDatasetByPathLength, passThrough and genEdgeProps.   *)
(* The state is the plan arena (the nodes made so far, a node's id being   *)
(* its position, 0 being nullptr), the SubPlan values the functions hold   *)
(* and the position of doExpand in its code.                               *)
(***************************************************************************)
EXTENDS Integers, Sequences, FiniteSets, TLC

\* ------------------------------------------------------------------ bounds
MaxHop == 2
MaxEdgeTypes == 2

\* --------------------------------------------------------------- constants
kVid == "_vid"
kPathStr == "path"
kSrc == "_src"
kType == "_type"
kRank == "_rank"
kDst == "_dst"

Directions == {"OUT_EDGE", "IN_EDGE", "BOTH"}

\* edge.range == nullptr
NoRange == [min |-> -1, max |-> -1]
\* the validator lets through only ranges with min <= max
Ranges == {NoRange} \cup {r \in [min : 0..MaxHop, max : 0..MaxHop] : r.min <= r.max}

EdgeTypeLists == {[i \in 1..n |-> i] : n \in 1..MaxEdgeTypes}

\* the fields the schema manager knows for an edge type
SchemaOf(t) == IF t = 1 THEN <<"likeness">> ELSE IF t = 2 THEN <<"start", "end">> ELSE << >>

\* what a read through the null schema pointer can do
UBOutcomes == {"crash", "nofields", "junkfield"}

NoExpr == [fn |-> "none", args |-> << >>, k |-> 0]

VARIABLES arena, pc, status, edge, node, reversely_, schemaMng, fetchVertexOK, dependency_, inputVar_, initialExpr_, entryPlan, plan, subplan, curr, passThroughVar, startIndex, loopRuns, dcheckFailed, failure

vars == <<arena, pc, status, edge, node, reversely_, schemaMng, fetchVertexOK, dependency_, inputVar_, initialExpr_, entryPlan, plan, subplan, curr, passThroughVar, startIndex, loopRuns, dcheckFailed, failure>>

\* a plan node: kind, dependencies, output variable, column names, input
\* variable, the expression it evaluates, the edge properties it fetches
PlanNode(kind, deps, outputVar, colNames, inputVar, expr, edgeProps) == [kind |-> kind, deps |-> deps, outputVar |-> outputVar, colNames |-> colNames, inputVar |-> inputVar, expr |-> expr, edgeProps |-> edgeProps]

SubPlan(root, tail) == [root |-> root, tail |-> tail]

\* auto minHop = edge.range ? edge.range->min() : 1;
MinHopOf(e) == IF e.range = NoRange THEN 1 ELSE e.range.min

\* auto maxHop = edge.range ? edge.range->max() : 1;
MaxHopOf(e) == IF e.range = NoRange THEN 1 ELSE e.range.max

\* ------------------------------------------------------------ genEdgeProps
EdgePropList(fields) == <<kSrc, kType, kRank, kDst>> \o fields

\* BOTH falling into the reversal as OUT does
EdgePropsOfType_Mut(direction, reversely, edgeType, fields) == IF direction = "BOTH" THEN <<[type |-> -edgeType, props |-> EdgePropList(fields)], [type |-> IF reversely THEN -edgeType ELSE edgeType, props |-> EdgePropList(fields)]>> ELSE IF direction = "OUT_EDGE" THEN <<[type |-> IF reversely THEN -edgeType ELSE edgeType, props |-> EdgePropList(fields)]>> ELSE <<[type |-> IF ~reversely THEN -edgeType ELSE edgeType, props |-> EdgePropList(fields)]>>

EdgePropsOfType(direction, reversely, edgeType, fields) == IF direction = "BOTH" THEN <<[type |-> -edgeType, props |-> EdgePropList(fields)], [type |-> edgeType, props |-> EdgePropList(fields)]>> ELSE IF direction = "OUT_EDGE" THEN <<[type |-> IF reversely THEN -edgeType ELSE edgeType, props |-> EdgePropList(fields)]>> ELSE <<[type |-> IF ~reversely THEN -edgeType ELSE edgeType, props |-> EdgePropList(fields)]>>

\* the fields read through the schema pointer of one edge type; ub is what
\* the read does when the pointer is null
FieldsRead(schema, t, ub) == IF schema[t] THEN SchemaOf(t) ELSE IF ub = "junkfield" THEN <<"?">> ELSE << >>

RECURSIVE genEdgePropsFrom(_, _, _, _, _)
genEdgePropsFrom(i, e, reversely, schema, ub) == IF i > Len(e.edgeTypes) THEN << >> ELSE EdgePropsOfType(e.direction, reversely, e.edgeTypes[i], FieldsRead(schema, e.edgeTypes[i], ub)) \o genEdgePropsFrom(i + 1, e, reversely, schema, ub)

genEdgeProps(e, reversely, schema, ub) == genEdgePropsFrom(1, e, reversely, schema, ub)

\* some edge type of the edge has no schema: getEdgeSchema gives nullptr
SchemaMissing(e, schema) == \E i \in 1..Len(e.edgeTypes) : ~schema[e.edgeTypes[i]]

\* ---------------------------------------------------- MatchSolver helpers
\* Project(vid) -> Dedup over dep; root is the dedup, tail the extraction
extractAndDedupVidColumn(ar, initialExpr, dep, inputVar) == LET p == Len(ar) + 1 IN [arena |-> ar \o <<PlanNode("Project", <<dep>>, p, <<kVid>>, inputVar, [fn |-> "vid", args |-> <<initialExpr>>, k |-> 0], << >>), PlanNode("Dedup", <<p>>, p + 1, <<kVid>>, p, NoExpr, << >>)>>, root |-> p + 1, tail |-> p]

\* GetVertices -> [Filter] -> Project(path) over the root of the subplan
appendFetchVertexPlan(ar, nodeFilter, initialExpr, inputVar, sp) == LET gv == Len(ar) + 1 IN LET a1 == ar \o <<PlanNode("GetVertices", <<sp.root>>, gv, <<kVid>>, inputVar, [fn |-> "src", args |-> <<initialExpr>>, k |-> 0], << >>)>> IN LET a2 == IF nodeFilter THEN a1 \o <<PlanNode("Filter", <<gv>>, gv + 1, <<kVid>>, gv, [fn |-> "nodeFilter", args |-> <<"vertex">>, k |-> 0], << >>)>> ELSE a1 IN LET r == Len(a2) + 1 IN [arena |-> a2 \o <<PlanNode("Project", <<Len(a2)>>, r, <<kPathStr>>, a2[Len(a2)].outputVar, [fn |-> "pathBuild", args |-> <<"vertex">>, k |-> 0], << >>)>>, root |-> r, tail |-> sp.tail]

\* SegmentsConnector::innerJoinSegments
innerJoinSegments(id, left, right) == PlanNode("InnerJoin", <<left, right>>, id, << >>, 0, [fn |-> "adjacent", args |-> << >>, k |-> 0], << >>)

\* MatchSolver::filtPathHasSameEdge
filtPathHasSameEdge(ar, id, input, column) == PlanNode("Filter", <<input>>, id, ar[input].colNames, ar[input].outputVar, [fn |-> "hasSameEdgeInPath", args |-> <<column>>, k |-> 0], << >>)

\* ------------------------------------------------------------- passThrough
passThrough(ar, root) == PlanNode("PassThrough", <<root>>, ar[root].outputVar, ar[root].colNames, ar[root].outputVar, NoExpr, << >>)

\* -------------------------------------------------------------- expandStep
\* Project->Dedup->GetNeighbors->[Filter]->[Filter]->Project
\* the vertex filter of the pattern node applied in every step
expandStep_Mut(ar, e, dep, inputVar, nodeFilter, initialExpr, reversely, schema, ub) == LET x == extractAndDedupVidColumn(ar, initialExpr, dep, inputVar) IN LET gn == Len(x.arena) + 1 IN LET a1 == x.arena \o <<PlanNode("GetNeighbors", <<x.root>>, gn, << >>, x.arena[x.root].outputVar, [fn |-> "src", args |-> <<kVid>>, k |-> 0], genEdgeProps(e, reversely, schema, ub))>> IN LET a2 == IF node.filter THEN a1 \o <<PlanNode("Filter", <<gn>>, gn + 1, a1[gn].colNames, a1[gn].outputVar, [fn |-> "nodeFilter", args |-> <<"vertex">>, k |-> 0], << >>)>> ELSE a1 IN LET a3 == IF e.filter THEN a2 \o <<PlanNode("Filter", <<Len(a2)>>, Len(a2) + 1, a2[Len(a2)].colNames, a2[Len(a2)].outputVar, [fn |-> "edgeFilter", args |-> <<"edge">>, k |-> 0], << >>)>> ELSE a2 IN LET r == Len(a3) + 1 IN [arena |-> a3 \o <<PlanNode("Project", <<Len(a3)>>, r, <<kPathStr>>, a3[Len(a3)].outputVar, [fn |-> "pathBuild", args |-> <<"vertex", "edge">>, k |-> 0], << >>)>>, root |-> r, tail |-> x.tail]

expandStep(ar, e, dep, inputVar, nodeFilter, initialExpr, reversely, schema, ub) == LET x == extractAndDedupVidColumn(ar, initialExpr, dep, inputVar) IN LET gn == Len(x.arena) + 1 IN LET a1 == x.arena \o <<PlanNode("GetNeighbors", <<x.root>>, gn, << >>, x.arena[x.root].outputVar, [fn |-> "src", args |-> <<kVid>>, k |-> 0], genEdgeProps(e, reversely, schema, ub))>> IN LET a2 == IF nodeFilter THEN a1 \o <<PlanNode("Filter", <<gn>>, gn + 1, a1[gn].colNames, a1[gn].outputVar, [fn |-> "nodeFilter", args |-> <<"vertex">>, k |-> 0], << >>)>> ELSE a1 IN LET a3 == IF e.filter THEN a2 \o <<PlanNode("Filter", <<Len(a2)>>, Len(a2) + 1, a2[Len(a2)].colNames, a2[Len(a2)].outputVar, [fn |-> "edgeFilter", args |-> <<"edge">>, k |-> 0], << >>)>> ELSE a2 IN LET r == Len(a3) + 1 IN [arena |-> a3 \o <<PlanNode("Project", <<Len(a3)>>, r, <<kPathStr>>, a3[Len(a3)].outputVar, [fn |-> "pathBuild", args |-> <<"vertex", "edge">>, k |-> 0], << >>)>>, root |-> r, tail |-> x.tail]

Init == /\ arena = <<PlanNode("Start", << >>, 1, <<kVid>>, 0, NoExpr, << >>), PlanNode("Start", <<1>>, 2, <<kVid>>, 1, NoExpr, << >>)>>
        /\ pc = "expandSteps"
        /\ status = "none"
        /\ edge \in [direction : Directions, edgeTypes : EdgeTypeLists, range : Ranges, filter : BOOLEAN]
        /\ node \in [filter : BOOLEAN]
        /\ reversely_ \in BOOLEAN
        /\ schemaMng \in [1..MaxEdgeTypes -> BOOLEAN]
        /\ fetchVertexOK \in BOOLEAN
        /\ dependency_ = 2
        /\ inputVar_ = 2
        /\ initialExpr_ = "initial"
        /\ entryPlan \in {SubPlan(0, 0), SubPlan(2, 1)}
        /\ plan = entryPlan
        /\ subplan = SubPlan(0, 0)
        /\ curr = SubPlan(0, 0)
        /\ passThroughVar = 0
        /\ startIndex = 0
        /\ loopRuns = 0
        /\ dcheckFailed = FALSE
        /\ failure = "none"

\* ------------------------------------------------------------- collectData
\* InnerJoin -> Project -> Filter -> PassThrough -> Union
\* the union taken over the previous accumulator, not the running union
collectData_MutUnion(ar, joinLeft, joinRight, inUnionNode) == LET j == Len(ar) + 1 IN LET join == [innerJoinSegments(j, joinLeft, joinRight) EXCEPT !.colNames = <<kPathStr \o "_0", kPathStr \o "_1">>] IN LET project == PlanNode("Project", <<j>>, j + 1, <<kPathStr>>, j, [fn |-> "pathBuild", args |-> <<kPathStr \o "_0", kPathStr \o "_1">>, k |-> 0], << >>) IN LET a2 == ar \o <<join, project>> IN LET filter == filtPathHasSameEdge(a2, j + 2, j + 1, kPathStr) IN LET pt == PlanNode("PassThrough", <<j + 2>>, filter.outputVar, <<kPathStr>>, filter.outputVar, NoExpr, << >>) IN LET uNode == PlanNode("Union", <<j + 3, joinLeft>>, j + 4, <<kPathStr>>, pt.outputVar, NoExpr, << >>) IN [arena |-> a2 \o <<filter, pt, uNode>>, root |-> j + 4, tail |-> j, passThrough |-> j + 3]

\* the union left with the columns of the join
collectData_MutCols(ar, joinLeft, joinRight, inUnionNode) == LET j == Len(ar) + 1 IN LET join == [innerJoinSegments(j, joinLeft, joinRight) EXCEPT !.colNames = <<kPathStr \o "_0", kPathStr \o "_1">>] IN LET project == PlanNode("Project", <<j>>, j + 1, <<kPathStr>>, j, [fn |-> "pathBuild", args |-> <<kPathStr \o "_0", kPathStr \o "_1">>, k |-> 0], << >>) IN LET a2 == ar \o <<join, project>> IN LET filter == filtPathHasSameEdge(a2, j + 2, j + 1, kPathStr) IN LET pt == PlanNode("PassThrough", <<j + 2>>, filter.outputVar, <<kPathStr>>, filter.outputVar, NoExpr, << >>) IN LET uNode == PlanNode("Union", <<j + 3, inUnionNode>>, j + 4, join.colNames, pt.outputVar, NoExpr, << >>) IN [arena |-> a2 \o <<filter, pt, uNode>>, root |-> j + 4, tail |-> j, passThrough |-> j + 3]

collectData(ar, joinLeft, joinRight, inUnionNode) == LET j == Len(ar) + 1 IN LET join == [innerJoinSegments(j, joinLeft, joinRight) EXCEPT !.colNames = <<kPathStr \o "_0", kPathStr \o "_1">>] IN LET project == PlanNode("Project", <<j>>, j + 1, <<kPathStr>>, j, [fn |-> "pathBuild", args |-> <<kPathStr \o "_0", kPathStr \o "_1">>, k |-> 0], << >>) IN LET a2 == ar \o <<join, project>> IN LET filter == filtPathHasSameEdge(a2, j + 2, j + 1, kPathStr) IN LET pt == PlanNode("PassThrough", <<j + 2>>, filter.outputVar, <<kPathStr>>, filter.outputVar, NoExpr, << >>) IN LET uNode == PlanNode("Union", <<j + 3, inUnionNode>>, j + 4, <<kPathStr>>, pt.outputVar, NoExpr, << >>) IN [arena |-> a2 \o <<filter, pt, uNode>>, root |-> j + 4, tail |-> j, passThrough |-> j + 3]

\* ----------------------------------------------- filterDatasetByPathLength
\* Filter(length(path) >= minHop) over input; the tail is left alone
\* the default of an absent range taken as 0
filterDatasetByPathLength_Mut(ar, e, input, sp) == LET f == Len(ar) + 1 IN [arena |-> ar \o <<PlanNode("Filter", <<input>>, f, ar[input].colNames, ar[input].outputVar, [fn |-> "lengthGE", args |-> <<kPathStr>>, k |-> IF e.range = NoRange THEN 0 ELSE e.range.min], << >>)>>, root |-> f, tail |-> sp.tail]

filterDatasetByPathLength(ar, e, input, sp) == LET f == Len(ar) + 1 IN [arena |-> ar \o <<PlanNode("Filter", <<input>>, f, ar[input].colNames, ar[input].outputVar, [fn |-> "lengthGE", args |-> <<kPathStr>>, k |-> IF e.range = NoRange THEN 1 ELSE e.range.min], << >>)>>, root |-> f, tail |-> sp.tail]

\* ------------------------------------------------------------- expandSteps
\* if (minHop == 0): the vertex itself, passed through when maxHop > 0
ZeroStep == /\ pc = "expandSteps"
            /\ MinHopOf(edge) = 0
            /\ IF ~fetchVertexOK
                  THEN /\ status' = "Error"
                       /\ failure' = "fetchVertex"
                       /\ pc' = "returned"
                       /\ UNCHANGED <<arena, subplan, passThroughVar>>
                  ELSE LET f == appendFetchVertexPlan(arena, node.filter, initialExpr_, inputVar_, plan) IN
                       /\ arena' = IF MaxHopOf(edge) > 0 THEN f.arena \o <<passThrough(f.arena, f.root)>> ELSE f.arena
                       /\ subplan' = SubPlan(Len(arena'), f.tail)
                       /\ passThroughVar' = Len(arena')
                       /\ pc' = "loop"
                       /\ UNCHANGED <<status, failure>>
            /\ initialExpr_' = "null"
            /\ startIndex' = 0
            /\ UNCHANGED <<edge, node, reversely_, schemaMng, fetchVertexOK, dependency_, inputVar_, entryPlan, plan, curr, loopRuns, dcheckFailed>>

\* else: the first step from the dependency, with the vertex filter
FirstStep(ub) == /\ pc = "expandSteps"
                 /\ MinHopOf(edge) # 0
                 /\ initialExpr_' = "null"
                 /\ failure' = IF SchemaMissing(edge, schemaMng) THEN "schema" ELSE failure
                 /\ IF SchemaMissing(edge, schemaMng) /\ ub = "crash"
                       THEN /\ pc' = "crashed"
                            /\ arena' = extractAndDedupVidColumn(arena, initialExpr_, dependency_, inputVar_).arena
                            /\ UNCHANGED <<subplan, passThroughVar, startIndex>>
                       ELSE LET s == expandStep(arena, edge, dependency_, inputVar_, node.filter, initialExpr_, reversely_, schemaMng, ub) IN
                            /\ arena' = s.arena \o <<passThrough(s.arena, s.root)>>
                            /\ subplan' = SubPlan(Len(arena'), s.tail)
                            /\ passThroughVar' = Len(arena')
                            /\ startIndex' = 1
                            /\ pc' = "loop"
                 /\ UNCHANGED <<status, edge, node, reversely_, schemaMng, fetchVertexOK, dependency_, inputVar_, entryPlan, plan, curr, loopRuns, dcheckFailed>>

\* for (; startIndex < maxHop; ++startIndex)
LoopCond_Mut(i, e) == i <= MaxHopOf(e)

LoopCond(i, e) == i < MaxHopOf(e)

\* loop body, first half: one more step from the accumulator
LoopExpandStep(ub) == /\ pc = "loop"
                      /\ LoopCond(startIndex, edge)
                      /\ initialExpr_' = "null"
                      /\ failure' = IF SchemaMissing(edge, schemaMng) THEN "schema" ELSE failure
                      /\ IF SchemaMissing(edge, schemaMng) /\ ub = "crash"
                            THEN /\ pc' = "crashed"
                                 /\ arena' = extractAndDedupVidColumn(arena, initialExpr_, passThroughVar, arena[passThroughVar].outputVar).arena
                                 /\ UNCHANGED curr
                            ELSE LET s == expandStep(arena, edge, passThroughVar, arena[passThroughVar].outputVar, FALSE, initialExpr_, reversely_, schemaMng, ub) IN
                                 /\ arena' = s.arena
                                 /\ curr' = SubPlan(s.root, s.tail)
                                 /\ pc' = "collect"
                      /\ UNCHANGED <<status, edge, node, reversely_, schemaMng, fetchVertexOK, dependency_, inputVar_, entryPlan, plan, subplan, passThroughVar, startIndex, loopRuns, dcheckFailed>>

\* the kinds the assertion at the loop head lets through
DCheckKinds_Mut == {"Union"}

DCheckKinds == {"Union", "PassThrough"}

\* loop body, second half: the assertion, collectData, ++startIndex
LoopCollectData == /\ pc = "collect"
                   /\ LET rNode == subplan.root IN LET c == collectData(arena, passThroughVar, curr.root, rNode) IN
                      /\ dcheckFailed' = (dcheckFailed \/ arena[rNode].kind \notin DCheckKinds)
                      /\ arena' = c.arena
                      /\ subplan' = SubPlan(c.root, c.tail)
                      /\ passThroughVar' = c.passThrough
                   /\ startIndex' = startIndex + 1
                   /\ loopRuns' = loopRuns + 1
                   /\ pc' = "loop"
                   /\ UNCHANGED <<status, edge, node, reversely_, schemaMng, fetchVertexOK, dependency_, inputVar_, initialExpr_, entryPlan, plan, curr, failure>>

\* plan->root = subplan.root; return Status::OK();
LoopExit == /\ pc = "loop"
            /\ ~LoopCond(startIndex, edge)
            /\ plan' = [plan EXCEPT !.root = subplan.root]
            /\ pc' = "filter"
            /\ UNCHANGED <<arena, status, edge, node, reversely_, schemaMng, fetchVertexOK, dependency_, inputVar_, initialExpr_, entryPlan, subplan, curr, passThroughVar, startIndex, loopRuns, dcheckFailed, failure>>

\* ---------------------------------------------------------------- doExpand
\* filterDatasetByPathLength(edge, plan->root, plan); return Status::OK();
DoExpandFilter == /\ pc = "filter"
                  /\ LET f == filterDatasetByPathLength(arena, edge, plan.root, plan) IN
                     /\ arena' = f.arena
                     /\ plan' = SubPlan(f.root, f.tail)
                  /\ status' = "OK"
                  /\ pc' = "returned"
                  /\ UNCHANGED <<edge, node, reversely_, schemaMng, fetchVertexOK, dependency_, inputVar_, initialExpr_, entryPlan, subplan, curr, passThroughVar, startIndex, loopRuns, dcheckFailed, failure>>

Next == \/ ZeroStep
        \/ \E ub \in UBOutcomes : FirstStep(ub)
        \/ \E ub \in UBOutcomes : LoopExpandStep(ub)
        \/ LoopCollectData
        \/ LoopExit
        \/ DoExpandFilter

Spec == Init /\ [][Next]_vars

TypeOK == /\ pc \in {"expandSteps", "loop", "collect", "filter", "returned", "crashed"}
          /\ status \in {"none", "OK", "Error"}
          /\ \A i \in 1..Len(arena) : \A d \in 1..Len(arena[i].deps) : arena[i].deps[d] < i

\* ------------------------------------------------- reading the plan graph
\* the declared hop range, absent meaning [1,1]
DeclaredMin == IF edge.range = NoRange THEN 1 ELSE edge.range.min

DeclaredMax == IF edge.range = NoRange THEN 1 ELSE edge.range.max

\* the nodes reachable from n along dependency edges, n included
RECURSIVE ReachFrom(_)
ReachFrom(n) == IF n = 0 THEN {} ELSE {n} \cup UNION {ReachFrom(arena[n].deps[d]) : d \in 1..Len(arena[n].deps)}

KindCount(root, kind) == Cardinality({n \in ReachFrom(root) : arena[n].kind = kind})

SetMax(S) == IF S = {} THEN 0 ELSE CHOOSE x \in S : \A y \in S : y <= x

SetMin(S) == CHOOSE x \in S : \A y \in S : x <= y

\* the largest number of neighbor fetches chained below n
RECURSIVE GNDepth(_)
GNDepth(n) == IF n = 0 THEN 0 ELSE (IF arena[n].kind = "GetNeighbors" THEN 1 ELSE 0) + SetMax({GNDepth(arena[n].deps[d]) : d \in 1..Len(arena[n].deps)})

\* the branches of a tree of unions
RECURSIVE Branches(_)
Branches(n) == IF arena[n].kind = "Union" THEN Branches(arena[n].deps[1]) \cup Branches(arena[n].deps[2]) ELSE {n}

\* the number of hops of the path value a branch node produces
RECURSIVE PathLen(_)
PathLen(n) == IF arena[n].kind \in {"PassThrough", "Filter"} THEN PathLen(arena[n].deps[1]) ELSE IF arena[n].kind # "Project" \/ arena[n].expr.fn # "pathBuild" THEN -1 ELSE IF arena[n].expr.args = <<"vertex">> THEN 0 ELSE IF arena[arena[n].deps[1]].kind = "InnerJoin" THEN PathLen(arena[arena[n].deps[1]].deps[1]) + PathLen(arena[arena[n].deps[1]].deps[2]) ELSE 1

NodesOfKind(kind) == {n \in 1..Len(arena) : arena[n].kind = kind}

VertexFilters == {n \in 1..Len(arena) : arena[n].kind = "Filter" /\ arena[n].expr.fn = "nodeFilter"}

\* the extraction projection at the bottom of the step of neighbor fetch g
ExtractionOf(g) == arena[arena[g].deps[1]].deps[1]

Returned == pc = "returned" /\ status = "OK"

\* every schema lookup of the edge succeeded
CleanRun == ~SchemaMissing(edge, schemaMng)

\* ------------------------------------------------------------------ claims
\* C1: for 1 <= minHop <= maxHop (no range being [1,1]) the returned plan
\* holds exactly maxHop neighbor fetches and maxHop - 1 inner joins; the
\* loop body ran maxHop - startIndex times, startIndex starting at 1 when
\* minHop >= 1 and at 0 when minHop = 0.
C1_HopStagesAndJoins == /\ (pc \in {"loop", "collect"}) => startIndex - loopRuns = (IF DeclaredMin = 0 THEN 0 ELSE 1)
                        /\ Returned => loopRuns = DeclaredMax - (IF DeclaredMin = 0 THEN 0 ELSE 1)
                        /\ (Returned /\ DeclaredMin >= 1) => (KindCount(plan.root, "GetNeighbors") = DeclaredMax /\ KindCount(plan.root, "InnerJoin") = DeclaredMax - 1)

C1_Witness == CleanRun /\ Returned /\ DeclaredMin >= 1 /\ DeclaredMax >= 2 /\ KindCount(plan.root, "InnerJoin") >= 1

\* C2: genEdgeProps gives, for BOTH with n types, 2n specifications (the
\* negated then the positive id of each type) whatever reversely is; for
\* OUT n specifications, positive unless reversely; for IN n, negated unless
\* reversely; each carries src, type, rank, dst and then the schema fields.
C2_EdgeProps == ~SchemaMissing(edge, schemaMng) => \A g \in NodesOfKind("GetNeighbors") : LET ps == arena[g].edgeProps IN LET ts == edge.edgeTypes IN
                   /\ edge.direction = "BOTH" => (Len(ps) = 2 * Len(ts) /\ \A i \in 1..Len(ts) : ps[2 * i - 1].type = -ts[i] /\ ps[2 * i].type = ts[i])
                   /\ edge.direction = "OUT_EDGE" => (Len(ps) = Len(ts) /\ \A i \in 1..Len(ts) : ps[i].type = (IF reversely_ THEN -ts[i] ELSE ts[i]))
                   /\ edge.direction = "IN_EDGE" => (Len(ps) = Len(ts) /\ \A i \in 1..Len(ts) : ps[i].type = (IF reversely_ THEN ts[i] ELSE -ts[i]))
                   /\ \A j \in 1..Len(ps) : ps[j].props = <<"_src", "_type", "_rank", "_dst">> \o SchemaOf(IF ps[j].type < 0 THEN -ps[j].type ELSE ps[j].type)

C2_Witness == /\ ~SchemaMissing(edge, schemaMng)
              /\ edge.direction = "BOTH"
              /\ reversely_
              /\ Len(edge.edgeTypes) >= 2
              /\ \E g \in NodesOfKind("GetNeighbors") : Len(arena[g].edgeProps) = 2 * Len(edge.edgeTypes)

C4_ZeroHopUnion == (pc = "filter" /\ DeclaredMin = 0 /\ DeclaredMax >= 1) => LET B == Branches(plan.root) IN
                      /\ arena[plan.root].kind = "Union"
                      /\ Cardinality(B) = DeclaredMax + 1
                      /\ \A h \in 0..DeclaredMax : Cardinality({b \in B : PathLen(b) = h}) = 1
                      /\ \A b \in B : PathLen(b) = 0 => /\ arena[b].kind = "PassThrough"
                                                        /\ arena[arena[b].deps[1]].kind = "Project"
                                                        /\ KindCount(b, "GetVertices") = 1
                                                        /\ KindCount(b, "GetNeighbors") = 0
                                                        /\ LET p == ExtractionOf(SetMin(NodesOfKind("GetNeighbors"))) IN arena[p].deps = <<b>> /\ arena[p].inputVar = arena[b].outputVar

C4_Witness == CleanRun /\ pc = "filter" /\ DeclaredMin = 0 /\ DeclaredMax >= 2 /\ Cardinality(Branches(plan.root)) >= 3

\* C5: when a fallible step of doExpand fails (schema lookup, fetch-vertex
\* plan, step expansion, segment collection) doExpand returns a non-OK status
\* at once, runs no later step, and leaves the caller's SubPlan as on entry.
C5_FailureReturnsStatus == failure # "none" => (pc = "returned" /\ status = "Error" /\ plan = entryPlan)

\* C6: after a successful doExpand, for every SubPlan passed in, the tail of
\* the returned SubPlan is reachable from its root (or equal to it).
C6_TailReachable == Returned => plan.tail \in ReachFrom(plan.root)

\* C7: no branch of the plan chains more than maxHop neighbor fetches, and
\* the only length filter attached is the >= minHop one: the maximum is
\* enforced by the loop bound alone.
C7_AtMostMaxHop == (pc \in {"filter", "returned"} /\ status # "Error") => /\ GNDepth(plan.root) <= DeclaredMax
                                                                           /\ \A b \in Branches(IF pc = "filter" THEN plan.root ELSE arena[plan.root].deps[1]) : PathLen(b) <= DeclaredMax
                                                                           /\ \A n \in ReachFrom(plan.root) : (arena[n].kind = "Filter" /\ arena[n].expr.fn \notin {"nodeFilter", "edgeFilter", "hasSameEdgeInPath"}) => (n = plan.root /\ pc = "returned" /\ arena[n].expr.fn = "lengthGE")

C7_Witness == CleanRun /\ Returned /\ DeclaredMax >= 2 /\ GNDepth(plan.root) = DeclaredMax

\* C8: after every collectData the running union (the new subplan root) has
\* the single column path, and so have the pass-through accumulator and the
\* merging projection of that call; only the join has path_0 and path_1.
C8_UnionColumns == (pc = "loop" /\ loopRuns >= 1) => LET u == subplan.root IN LET pt == passThroughVar IN LET j == subplan.tail IN
                      /\ arena[u].kind = "Union" /\ arena[u].colNames = <<"path">>
                      /\ arena[u].deps[1] = pt
                      /\ arena[pt].kind = "PassThrough" /\ arena[pt].colNames = <<"path">>
                      /\ arena[j].kind = "InnerJoin" /\ arena[j].colNames = <<"path_0", "path_1">>
                      /\ arena[j + 1].kind = "Project" /\ arena[j + 1].deps = <<j>> /\ arena[j + 1].colNames = <<"path">>
                      /\ \A n \in 1..Len(arena) : arena[n].colNames = <<"path_0", "path_1">> => arena[n].kind = "InnerJoin"
                      /\ \A n \in NodesOfKind("Union") : arena[n].colNames = <<"path">>

C8_Witness == CleanRun /\ pc = "loop" /\ loopRuns >= 2 /\ arena[subplan.root].kind = "Union"

\* C9: the vertex filter of NodeInfo is applied in one stage only, the
\* anchor (the fetch-vertex stage when minHop = 0; the first step when
\* minHop >= 1, directly above the neighbor fetch and below the edge
\* filter); the steps of the hop loop have no vertex filter and expand from
\* the output variable of the current pass-through accumulator.
C9_VertexFilterAtAnchor == (pc \in {"loop", "collect", "filter", "returned"} /\ status # "Error") => LET G == NodesOfKind("GetNeighbors") IN
                              /\ Cardinality(VertexFilters) = (IF node.filter THEN 1 ELSE 0)
                              /\ \A f \in VertexFilters : IF DeclaredMin = 0 THEN arena[arena[f].deps[1]].kind = "GetVertices" ELSE
                                    /\ arena[f].deps = <<SetMin(G)>>
                                    /\ arena[ExtractionOf(SetMin(G))].deps = <<dependency_>>
                                    /\ arena[f + 1].deps = <<f>>
                                    /\ arena[f + 1].kind = (IF edge.filter THEN "Filter" ELSE "Project")
                                    /\ edge.filter => arena[f + 1].expr.fn = "edgeFilter"
                              /\ \A g \in G : (DeclaredMin = 0 \/ g # SetMin(G)) => LET p == ExtractionOf(g) IN LET acc == SetMax({m \in NodesOfKind("PassThrough") : m < p}) IN
                                    /\ \A f \in VertexFilters : arena[f].deps # <<g>>
                                    /\ arena[p].deps = <<acc>>
                                    /\ arena[p].inputVar = arena[acc].outputVar

C9_Witness == CleanRun /\ Returned /\ node.filter /\ edge.filter /\ DeclaredMin >= 1 /\ DeclaredMax >= 2 /\ Cardinality(VertexFilters) = 1

\* C10: at the head of every iteration of the hop loop the running subplan
\* root is a pass-through node (first iteration) or a union node (later
\* ones), so the assertion never fails; the loop body is never entered with
\* the bare fetch-vertex root of the range [0,0].
C10_LoopHeadKind == /\ ~dcheckFailed
                    /\ pc = "collect" => arena[subplan.root].kind = (IF loopRuns = 0 THEN "PassThrough" ELSE "Union")
                    /\ (DeclaredMin = 0 /\ DeclaredMax = 0) => (pc # "collect" /\ loopRuns = 0)

C10_Witness == CleanRun /\ pc = "collect" /\ loopRuns >= 1 /\ arena[subplan.root].kind = "Union"

====
